---- MODULE Spec2Model ----
(***************************************************************************)
(* Model of the legacy jump-destination analysis of core/vm:               *)
(* codeBitmap / codeBitmapInternal and the BitVec helpers set1, setN,      *)
(* set8, set16 and codeSegment (core/vm/analysis_legacy.go).               *)
(*                                                                         *)
(* A BitVec is a Go []byte: here a function from 0..n-1 to 0..255.  Byte   *)
(* arithmetic keeps its width (bytes mod 2^8, the uint16 flag mod 2^16).   *)
(* An index outside the slice is a run-time panic: the write is not made   *)
(* and the invocation ends in the "panic" position.                        *)
(* The cursor pc is a uint64; the lengths explored here stay far below     *)
(* 2^64, so it is modelled without wrap-around.                            *)
(***************************************************************************)
EXTENDS Integers, Sequences, FiniteSets, TLC

VARIABLES
    code,      \* code[p]: the input byte sequence of invocation p
    heap,      \* the allocated BitVecs, by address 1..Len(heap)
    ref,       \* ref[p]: address of the BitVec of invocation p (0: none yet)
    pc,        \* pc[p]: the cursor of codeBitmapInternal
    numbits,   \* numbits[p]: bits of the current push still to be marked
    at,        \* at[p]: position of invocation p in the code
    answer,    \* answer[p]: the last codeSegment query on the returned vector
    hist       \* hist[p]: history of the scan of invocation p (records only):
               \*   visited: the offsets read as op := code[pc] so far
               \*   cur:     the offset of the opcode of the current iteration
               \*   calls:   the marking calls <<pos, n>> of the current iteration

vars == <<code, heap, ref, pc, numbits, at, answer, hist>>

----------------------------------------------------------------------------
(* Opcodes                                                                 *)

PUSH1 == 96

JUMPDEST == 91

(* set2BitsMask .. set7BitsMask: the mask with the n low bits set.          *)
setNBitsMask(n) == 2^n - 1

----------------------------------------------------------------------------
(* Bounds of the explored inputs                                           *)

MaxLead == 7      \* leading JUMPDEST bytes: every alignment of a push
MaxFill == 34     \* trailing bytes: a PUSH32 with its whole span inside
ConcMaxLead == 1
ConcMaxFill == 2
ByteMaxLead == 7  \* every alignment of one opcode of any byte value
ByteMaxFill == 1

HeadBytes == {0, 91, 95, 96, 97, 102, 103, 104, 111, 119, 126, 127, 128, 255}
FillBytes == {91, 96, 127}
ConcHeadBytes == {91, 96, 104, 127, 128}
ConcFillBytes == {91}
AllBytes == 0..255

Fill(b, k) == [i \in 1..k |-> b]

(* lead JUMPDESTs, then at most one head byte, then k equal fill bytes      *)
Codes(maxLead, heads, fills, maxFill) ==
    { Fill(JUMPDEST, i) \o h \o Fill(c, k) :
        i \in 0..maxLead, h \in {<<>>} \cup {<<b>> : b \in heads},
        c \in fills, k \in 0..maxFill }

----------------------------------------------------------------------------
(* Byte arithmetic                                                         *)

Bit(x, k) == (x \div 2^k) % 2

(* a | b on bytes *)
Or(a, b) ==
    LET o(k) == IF Bit(a, k) = 1 \/ Bit(b, k) = 1 THEN 2^k ELSE 0
    IN  o(0) + o(1) + o(2) + o(3) + o(4) + o(5) + o(6) + o(7)

(* int8(x) of a byte *)
int8(x) == IF x >= 128 THEN x - 256 ELSE x

----------------------------------------------------------------------------
(* BitVec: a []byte with Go's bounds-checked indexing                      *)

(* storage that is zeroed only the first time it is handed out *)
MakeBitVecDirty(n) == [i \in 0..(n - 1) |-> IF heap = <<>> THEN 0 ELSE 255]

MakeBitVec(n) == [i \in 0..(n - 1) |-> 0]

BitVecLen(bits) == Cardinality(DOMAIN bits)

Access(bits) == [bits |-> bits, fault |-> FALSE]

(* bits[i] as an rvalue (a faulting read is caught by the Put that follows) *)
Get(r, i) == IF i \in DOMAIN r.bits THEN r.bits[i] ELSE 0

(* bits[i] = v; an index out of range panics and nothing after it runs      *)
Put(r, i, v) ==
    IF r.fault \/ i \notin DOMAIN r.bits
    THEN [bits |-> r.bits, fault |-> TRUE]
    ELSE [bits |-> [r.bits EXCEPT ![i] = v], fault |-> FALSE]

(* set1 with the shift off by one *)
set1OffByOne(bits, pos) ==
    LET r == Access(bits)
    IN  Put(r, pos \div 8, Or(Get(r, pos \div 8), (2^((pos + 7) % 8)) % 256))

set1(bits, pos) ==
    LET r == Access(bits)
    IN  Put(r, pos \div 8, Or(Get(r, pos \div 8), (2^(pos % 8)) % 256))

(* setN that drops the bits carried into the following byte *)
setNNoCarry(bits, flag, pos) ==
    LET a  == (flag * 2^(pos % 8)) % 65536
        r0 == Access(bits)
    IN  Put(r0, pos \div 8, Or(Get(r0, pos \div 8), a % 256))

setN(bits, flag, pos) ==
    LET a  == (flag * 2^(pos % 8)) % 65536
        b  == (a \div 256) % 256
        r0 == Access(bits)
        r1 == Put(r0, pos \div 8, Or(Get(r0, pos \div 8), a % 256))
    IN  IF b # 0 THEN Put(r1, pos \div 8 + 1, b) ELSE r1

(* set8 that assigns, instead of ORs, the first byte *)
set8Assign(bits, pos) ==
    LET a  == (255 * 2^(pos % 8)) % 256
        r0 == Access(bits)
        r1 == Put(r0, pos \div 8, a)
    IN  Put(r1, pos \div 8 + 1, 255 - a)

(* set8 that stores a, not its complement, in the following byte *)
set8NoComplement(bits, pos) ==
    LET a  == (255 * 2^(pos % 8)) % 256
        r0 == Access(bits)
        r1 == Put(r0, pos \div 8, Or(Get(r0, pos \div 8), a))
    IN  Put(r1, pos \div 8 + 1, a)

set8(bits, pos) ==
    LET a  == (255 * 2^(pos % 8)) % 256
        r0 == Access(bits)
        r1 == Put(r0, pos \div 8, Or(Get(r0, pos \div 8), a))
    IN  Put(r1, pos \div 8 + 1, 255 - a)

(* set16 that fills the third byte entirely *)
set16FullTail(bits, pos) ==
    LET a  == (255 * 2^(pos % 8)) % 256
        r0 == Access(bits)
        r1 == Put(r0, pos \div 8, Or(Get(r0, pos \div 8), a))
        r2 == Put(r1, pos \div 8 + 1, 255)
    IN  Put(r2, pos \div 8 + 2, 255)

set16(bits, pos) ==
    LET a  == (255 * 2^(pos % 8)) % 256
        r0 == Access(bits)
        r1 == Put(r0, pos \div 8, Or(Get(r0, pos \div 8), a))
        r2 == Put(r1, pos \div 8 + 1, 255)
    IN  Put(r2, pos \div 8 + 2, 255 - a)

(* codeSegment with index and shift exchanged *)
codeSegmentSwapped(bits, pos) ==
    LET r == Access(bits)
    IN  IF pos % 8 \in DOMAIN bits
        THEN [seg |-> ((Get(r, pos % 8) \div 2^(pos \div 8)) % 2) = 0,
              fault |-> FALSE]
        ELSE [seg |-> FALSE, fault |-> TRUE]

(* codeSegment: the position is in a code segment (its bit is unset)        *)
codeSegment(bits, pos) ==
    LET r == Access(bits)
    IN  IF pos \div 8 \in DOMAIN bits
        THEN [seg |-> ((Get(r, pos \div 8) \div 2^(pos % 8)) % 2) = 0,
              fault |-> FALSE]
        ELSE [seg |-> FALSE, fault |-> TRUE]

----------------------------------------------------------------------------
(* codeBitmap                                                              *)

(* the storage without the 4 bytes of padding *)
BitmapSizeNoPad(n) == n \div 8 + 1

(* the storage with 3 bytes of padding *)
BitmapSizeShort(n) == n \div 8 + 1 + 3

(* len(code)/8+1+4: the size of the storage codeBitmap allocates            *)
BitmapSize(n) == n \div 8 + 1 + 4

(* one buffer shared by every invocation *)
NewAddrShared(h) == 1

(* the address make() returns: a fresh one                                  *)
NewAddr(h) == Len(h) + 1

(* code[i], 0-based as in Go *)
Op(c, i) == c[i + 1]

(* the PUSH test as an unsigned comparison *)
IsPushUnsigned(op) == ~(op < PUSH1)

IsPush(op) == ~(int8(op) < int8(PUSH1))

(* numbits := op - PUSH1, one short *)
NumBitsOneShort(op) == (op - PUSH1) % 256

(* numbits := op - PUSH1 + 1, in the byte-wide OpCode type *)
NumBits(op) == (op - PUSH1 + 1) % 256

(* codeBitmapInternal run to its end without interruption, from cursor pc    *)
(* with nb bits of the current push still to mark; r is the vector so far    *)
RECURSIVE codeBitmapInternal(_, _, _, _)
codeBitmapInternal(c, r, cur, nb) ==
    IF r.fault THEN r
    ELSE IF nb >= 16 THEN codeBitmapInternal(c, set16(r.bits, cur), cur + 16, nb - 16)
    ELSE IF nb >= 8 THEN codeBitmapInternal(c, set8(r.bits, cur), cur + 8, nb - 8)
    ELSE IF nb = 1 THEN codeBitmapInternal(c, set1(r.bits, cur), cur + 1, 0)
    ELSE IF nb \in 2..7
         THEN codeBitmapInternal(c, setN(r.bits, setNBitsMask(nb), cur), cur + nb, 0)
    ELSE IF ~(cur < Len(c)) THEN r
    ELSE IF ~IsPush(Op(c, cur)) THEN codeBitmapInternal(c, r, cur + 1, 0)
    ELSE codeBitmapInternal(c, r, cur + 1, NumBits(Op(c, cur)))

(* codeBitmap(code) as one uninterrupted call *)
codeBitmap(c) ==
    codeBitmapInternal(c, Access(MakeBitVec(BitmapSize(Len(c)))), 0, 0)

Procs == DOMAIN code

bitsOf(p) == heap[ref[p]]

(* the history after op := code[o] starts a new iteration *)
Evaluated(h, o) == [visited |-> h.visited \cup {o}, cur |-> o, calls |-> <<>>]

Init0(codes, procs) ==
    /\ code \in [procs -> codes]
    /\ heap = <<>>
    /\ ref = [p \in procs |-> 0]
    /\ pc = [p \in procs |-> 0]
    /\ numbits = [p \in procs |-> 0]
    /\ at = [p \in procs |-> "start"]
    /\ answer = [p \in procs |-> <<>>]
    /\ hist = [p \in procs |-> [visited |-> {}, cur |-> -1, calls |-> <<>>]]

Init == Init0(Codes(MaxLead, HeadBytes, FillBytes, MaxFill), {1})

InitConc == Init0(Codes(ConcMaxLead, ConcHeadBytes, ConcFillBytes, ConcMaxFill), {1, 2})

InitBytes == Init0(Codes(ByteMaxLead, AllBytes, {JUMPDEST}, ByteMaxFill), {1})

(* bits := make(BitVec, len(code)/8+1+4) *)
Alloc(p) ==
    /\ at[p] = "start"
    /\ heap' = Append(heap, MakeBitVec(BitmapSize(Len(code[p]))))
    /\ ref' = [ref EXCEPT ![p] = NewAddr(heap)]
    /\ at' = [at EXCEPT ![p] = "loop"]
    /\ UNCHANGED <<code, pc, numbits, answer, hist>>

(* pc < uint64(len(code)) is false: return bits *)
LoopExit(p) ==
    /\ at[p] = "loop"
    /\ ~(pc[p] < Len(code[p]))
    /\ at' = [at EXCEPT ![p] = "done"]
    /\ UNCHANGED <<code, heap, ref, pc, numbits, answer, hist>>

(* op := code[pc]; pc++; not a PUSH: continue *)
NotPush(p) ==
    /\ at[p] = "loop"
    /\ pc[p] < Len(code[p])
    /\ ~IsPush(Op(code[p], pc[p]))
    /\ pc' = [pc EXCEPT ![p] = pc[p] + 1]
    /\ hist' = [hist EXCEPT ![p] = Evaluated(hist[p], pc[p])]
    /\ UNCHANGED <<code, heap, ref, numbits, at, answer>>

(* op := code[pc]; pc++; numbits := op - PUSH1 + 1 *)
Push(p) ==
    /\ at[p] = "loop"
    /\ pc[p] < Len(code[p])
    /\ IsPush(Op(code[p], pc[p]))
    /\ pc' = [pc EXCEPT ![p] = pc[p] + 1]
    /\ numbits' = [numbits EXCEPT ![p] = NumBits(Op(code[p], pc[p]))]
    /\ at' = [at EXCEPT ![p] = "body"]
    /\ hist' = [hist EXCEPT ![p] = Evaluated(hist[p], pc[p])]
    /\ UNCHANGED <<code, heap, ref, answer>>

(* the effect of one marking call r made at the cursor, which then moves by n *)
Mark(p, r, n) ==
    /\ heap' = [heap EXCEPT ![ref[p]] = r.bits]
    /\ IF r.fault
       THEN /\ at' = [at EXCEPT ![p] = "panic"]
            /\ UNCHANGED <<pc, numbits>>
       ELSE /\ pc' = [pc EXCEPT ![p] = pc[p] + n]
            /\ numbits' = [numbits EXCEPT ![p] = numbits[p] - n]
            /\ at' = [at EXCEPT ![p] = IF numbits[p] - n = 0 THEN "loop" ELSE "body"]
    /\ hist' = [hist EXCEPT ![p].calls = Append(@, <<pc[p], n>>)]
    /\ UNCHANGED <<code, ref, answer>>

(* the 16-bit chunks marked 8 bits at a time *)
Set16StepBy8(p) ==
    /\ at[p] = "body"
    /\ numbits[p] >= 16
    /\ Mark(p, set8(bitsOf(p), pc[p]), 8)

(* for ; numbits >= 16; numbits -= 16 { bits.set16(pc); pc += 16 } *)
Set16Step(p) ==
    /\ at[p] = "body"
    /\ numbits[p] >= 16
    /\ Mark(p, set16(bitsOf(p), pc[p]), 16)

(* for ; numbits >= 8; numbits -= 8 { bits.set8(pc); pc += 8 } *)
Set8Step(p) ==
    /\ at[p] = "body"
    /\ numbits[p] < 16
    /\ numbits[p] >= 8
    /\ Mark(p, set8(bitsOf(p), pc[p]), 8)

(* case 1: bits.set1(pc); pc += 1 *)
Case1(p) ==
    /\ at[p] = "body"
    /\ numbits[p] = 1
    /\ Mark(p, set1(bitsOf(p), pc[p]), 1)

(* case 2..7: bits.setN(setNBitsMask, pc); pc += N *)
CaseN(p) ==
    /\ at[p] = "body"
    /\ numbits[p] \in 2..7
    /\ Mark(p, setN(bitsOf(p), setNBitsMask(numbits[p]), pc[p]), numbits[p])

(* bits.codeSegment(pos) on the returned vector, for a position of the code; *)
(* the caller holds the result until it has used it                          *)
Query(p) ==
    /\ at[p] = "done"
    /\ answer[p] = <<>>
    /\ \E pos \in 0..(Len(code[p]) - 1) :
         LET r == codeSegment(bitsOf(p), pos)
         IN  IF r.fault
             THEN /\ at' = [at EXCEPT ![p] = "panic"]
                  /\ UNCHANGED answer
             ELSE /\ answer' = [answer EXCEPT ![p] = <<pos, r.seg>>]
                  /\ UNCHANGED at
    /\ UNCHANGED <<code, heap, ref, pc, numbits, hist>>

(* the caller has used the result of codeSegment and may ask again *)
Forget(p) ==
    /\ at[p] = "done"
    /\ answer[p] # <<>>
    /\ answer' = [answer EXCEPT ![p] = <<>>]
    /\ UNCHANGED <<code, heap, ref, pc, numbits, at, hist>>

Next ==
    \E p \in Procs :
        \/ Alloc(p)
        \/ LoopExit(p)
        \/ NotPush(p)
        \/ Push(p)
        \/ Set16Step(p)
        \/ Set8Step(p)
        \/ Case1(p)
        \/ CaseN(p)
        \/ Query(p)
        \/ Forget(p)

Spec == Init /\ [][Next]_vars

SpecConc == InitConc /\ [][Next]_vars

(* the steps of codeBitmap itself: everything but the caller's queries *)
Scan(p) ==
    \/ Alloc(p)
    \/ LoopExit(p)
    \/ NotPush(p)
    \/ Push(p)
    \/ Set16Step(p)
    \/ Set8Step(p)
    \/ Case1(p)
    \/ CaseN(p)

(* a call that has started keeps executing: codeBitmap never blocks or waits *)
SpecFair == Init /\ [][Next]_vars /\ WF_vars(Scan(1))

(* one invocation on a code holding one opcode of any of the 256 byte values *)
SpecBytes == InitBytes /\ [][Next]_vars

----------------------------------------------------------------------------
(* Vocabulary of the properties                                            *)

MaxPushWidth == 32

(* the byte value is one of PUSH1..PUSH32 *)
IsPushLiteral(b) == b \in PUSH1..(PUSH1 + MaxPushWidth - 1)

(* the width of a byte read as an opcode: 1..32 for a push, else 0 *)
Width(b) == IF IsPushLiteral(b) THEN b - PUSH1 + 1 ELSE 0

(* the offsets the reference scan visits as current opcode, from offset o *)
RECURSIVE RefVisited(_, _)
RefVisited(c, o) ==
    IF o >= Len(c) THEN {}
    ELSE {o} \cup RefVisited(c, o + Width(c[o + 1]) + 1)

(* the offsets the reference scan marks as data *)
RefData(c) ==
    UNION { (o + 1)..(o + Width(c[o + 1])) : o \in RefVisited(c, 0) }

(* bit i of the vector is set: offset i is classified as data *)
DataBit(bits, i) == Bit(bits[i \div 8], i % 8) = 1

Offsets(c) == 0..(Len(c) - 1)

AllBits(bits) == 0..(8 * BitVecLen(bits) - 1)

Done(p) == at[p] = "done"

(* the moment codeBitmap returns, before any query *)
Returned(p) == at[p] = "done" /\ answer[p] = <<>>

Replace(c, d, v) == [c EXCEPT ![d + 1] = v]

(* bytes needed to hold n bits *)
BytesFor(n) == (n + 7) \div 8

----------------------------------------------------------------------------
(* C1: the returned vector has bit i set, for i < len(code), exactly when  *)
(* i lies in the span [p+1, p+w] of a push of width w that the reference   *)
(* scan visits as current opcode at p.                                     *)
C1_BitmapMatchesReferenceScan ==
    \A p \in Procs :
        Done(p) =>
            LET data == RefData(code[p])
                bits == bitsOf(p)
            IN  \A i \in Offsets(code[p]) : DataBit(bits, i) <=> i \in data

C1_Witness ==
    \E p \in Procs :
        /\ Done(p)
        /\ \E i, j \in Offsets(code[p]) :
              /\ DataBit(bitsOf(p), i)
              /\ i < j
              /\ ~DataBit(bitsOf(p), j)
              /\ IsPushLiteral(code[p][j + 1])

(* C2: replacing the byte at an offset classified as data by any other     *)
(* byte value leaves the result of codeBitmap bit-identical.               *)
ReplBytes == {0, JUMPDEST, PUSH1, PUSH1 + 31}

C2_DataByteValueIrrelevant ==
    \A p \in Procs :
        Returned(p) =>
            \A d \in Offsets(code[p]) :
                DataBit(bitsOf(p), d) =>
                    \A v \in ReplBytes \ {code[p][d + 1]} :
                        LET r == codeBitmap(Replace(code[p], d, v))
                        IN  ~r.fault /\ r.bits = bitsOf(p)

C2_Witness ==
    \E p \in Procs :
        /\ Returned(p)
        /\ \E d \in Offsets(code[p]) :
              /\ DataBit(bitsOf(p), d)
              /\ code[p][d + 1] = JUMPDEST
              /\ d + 1 < Len(code[p])
              /\ codeBitmap(Replace(code[p], d, PUSH1 + 31)).bits = bitsOf(p)

(* C3: no invocation ever indexes outside its storage (no panic), also     *)
(* for a truncated trailing push, and the bits below len(code) are those   *)
(* of the reference scan.                                                  *)
C3_NeverFaults ==
    \A p \in Procs :
        /\ at[p] # "panic"
        /\ ref[p] # 0 => BitVecLen(bitsOf(p)) = Len(code[p]) \div 8 + 1 + 4
        /\ Done(p) =>
              LET data == RefData(code[p])
                  bits == bitsOf(p)
              IN  /\ pc[p] \div 8 < BitVecLen(bits)
                  /\ \A i \in AllBits(bits) : DataBit(bits, i) => i \in data
                  /\ \A i \in Offsets(code[p]) : i \in data => DataBit(bits, i)

(* a PUSH32 as the last byte of the code: its span lies in the padding *)
C3_Witness ==
    \E p \in Procs :
        /\ Done(p)
        /\ Len(code[p]) > 0
        /\ code[p][Len(code[p])] = PUSH1 + 31
        /\ pc[p] = Len(code[p]) + 32
        /\ DataBit(bitsOf(p), Len(code[p]) + 31)

(* C4 as stated: every offset whose byte is a push-literal opcode of width *)
(* n with pc + n < len(code) has [pc+1, pc+n] data and pc+n+1 not data.    *)
C4_Original ==
    \A p \in Procs :
        Done(p) =>
            \A o \in Offsets(code[p]) :
                LET n == Width(code[p][o + 1])
                IN  (n >= 1 /\ o + n < Len(code[p])) =>
                        /\ \A i \in (o + 1)..(o + n) : DataBit(bitsOf(p), i)
                        /\ ~DataBit(bitsOf(p), o + n + 1)

(* C4 amended: the same for every offset that the scan evaluates as the    *)
(* current opcode (an offset that is not itself push data).                *)
C4_PushSpanOfVisitedOpcode ==
    \A p \in Procs :
        Done(p) =>
            LET bits == bitsOf(p)
            IN  \A o \in RefVisited(code[p], 0) :
                    LET n == Width(code[p][o + 1])
                    IN  (n >= 1 /\ o + n < Len(code[p])) =>
                            /\ \A i \in (o + 1)..(o + n) : DataBit(bits, i)
                            /\ ~DataBit(bits, o + n + 1)

(* a visited PUSH32 with its whole span, and the next opcode, in the code *)
C4_Witness ==
    \E p \in Procs :
        /\ Done(p)
        /\ \E o \in RefVisited(code[p], 0) :
              /\ Width(code[p][o + 1]) = 32
              /\ o + 33 < Len(code[p])
              /\ DataBit(bitsOf(p), o + 32)
              /\ ~DataBit(bitsOf(p), o + 33)

(* C5: for non-empty code, codeSegment(0) on the returned vector is true.  *)
C5_OffsetZeroIsCode ==
    \A p \in Procs :
        (Done(p) /\ Len(code[p]) > 0) =>
            LET r == codeSegment(bitsOf(p), 0)
            IN  ~r.fault /\ r.seg

C5_Witness ==
    \E p \in Procs :
        /\ Done(p)
        /\ Len(code[p]) > 1
        /\ IsPushLiteral(code[p][1])
        /\ DataBit(bitsOf(p), 1)
        /\ codeSegment(bitsOf(p), 0).seg

(* C6: for code without any byte in PUSH1..PUSH32 the returned vector has  *)
(* no bit set in its whole storage, padding included.                      *)
C6_NoPushNoDataBit ==
    \A p \in Procs :
        (Done(p) /\ \A o \in Offsets(code[p]) : ~IsPushLiteral(code[p][o + 1])) =>
            \A i \in DOMAIN bitsOf(p) : bitsOf(p)[i] = 0

C6_Witness ==
    \E p \in Procs :
        /\ Done(p)
        /\ Len(code[p]) >= 2
        /\ \A o \in Offsets(code[p]) : ~IsPushLiteral(code[p][o + 1])
        /\ \E o \in Offsets(code[p]) : code[p][o + 1] >= 128
        /\ pc[p] = Len(code[p])

(* C7: two invocations on equal code, each on its own fresh storage, end   *)
(* with vectors of equal length and equal in every bit.                    *)
C7_Deterministic ==
    \A p, q \in Procs :
        (Done(p) /\ Done(q) /\ code[p] = code[q]) =>
            /\ BitVecLen(bitsOf(p)) = BitVecLen(bitsOf(q))
            /\ \A i \in AllBits(bitsOf(p)) :
                  DataBit(bitsOf(p), i) <=> DataBit(bitsOf(q), i)

C7_Witness ==
    \E p, q \in Procs :
        /\ p # q
        /\ ref[p] # ref[q]
        /\ Done(p) /\ Done(q)
        /\ code[p] = code[q]
        /\ \E i \in AllBits(bitsOf(p)) : DataBit(bitsOf(p), i)

(* C8: a codeSegment query on the returned vector, at an offset below      *)
(* len(code), answers true exactly when bit (offset mod 8) of byte         *)
(* (offset div 8) is unset, stays inside the storage and changes no bit.   *)
BitUnset(b, k) == b % 2^(k + 1) < 2^k

C8_QueryIsReadOnly ==
    [][ \A p \in Procs :
          at[p] = "done" =>
            /\ at'[p] = "done"
            /\ heap' = heap
            /\ answer'[p] # <<>> =>
                  /\ answer'[p][1] \in Offsets(code[p])
                  /\ answer'[p][1] \div 8 < BitVecLen(bitsOf(p))
                  /\ answer'[p][2] =
                        BitUnset(bitsOf(p)[answer'[p][1] \div 8], answer'[p][1] % 8) ]_vars

(* both answers occur on one vector *)
C8_Witness ==
    \E p \in Procs :
        /\ Done(p)
        /\ answer[p] # <<>>
        /\ answer[p][1] > 8
        /\ ~answer[p][2]
        /\ \E i \in Offsets(code[p]) : i > answer[p][1] /\ ~DataBit(bitsOf(p), i)

(* C9: with two invocations interleaved in any order, each writes only     *)
(* its own storage and returns the vector it returns when run alone.       *)
C9_ConcurrentEqualsAlone ==
    /\ [](\A p \in Procs :
            /\ \A q \in Procs \ {p} : ref[p] # 0 => ref[p] # ref[q]
            /\ Done(p) =>
                  LET r == codeBitmap(code[p])
                  IN  ~r.fault /\ bitsOf(p) = r.bits)
    /\ [][ \A a \in DOMAIN heap :
             heap'[a] # heap[a] =>
                \E p \in Procs :
                    /\ ref[p] = a
                    /\ at[p] = "body"
                    /\ pc'[p] # pc[p]
                    /\ \A q \in Procs \ {p} :
                          ref[q] # a /\ pc'[q] = pc[q] /\ at'[q] = at[q] ]_vars

(* both invocations in the middle of marking, on different codes *)
C9_Witness ==
    \E p, q \in Procs :
        /\ p # q
        /\ code[p] # code[q]
        /\ at[p] = "body" /\ at[q] = "body"
        /\ \E i \in AllBits(bitsOf(p)) : DataBit(bitsOf(p), i)
        /\ \E i \in AllBits(bitsOf(q)) : DataBit(bitsOf(q), i)

(* C10 as stated: the storage exceeds the bytes needed for len(code) bits  *)
(* by at least MaxPushWidth / 8 + 1 = 5 bytes.                             *)
C10_Original ==
    \A p \in Procs :
        ref[p] # 0 =>
            BitVecLen(bitsOf(p)) - BytesFor(Len(code[p])) >= MaxPushWidth \div 8 + 1

(* C10 amended: the storage exceeds the bytes needed for len(code) bits by *)
(* at least MaxPushWidth / 8 = 4 bytes (by 5 when len(code) is a multiple  *)
(* of 8).                                                                  *)
C10_PaddingAtLeastFour ==
    \A p \in Procs :
        ref[p] # 0 =>
            /\ BitVecLen(bitsOf(p)) - BytesFor(Len(code[p])) >= MaxPushWidth \div 8
            /\ Len(code[p]) % 8 = 0 =>
                  BitVecLen(bitsOf(p)) - BytesFor(Len(code[p])) = MaxPushWidth \div 8 + 1

C10_Witness ==
    \E p \in Procs :
        /\ Done(p)
        /\ Len(code[p]) % 8 # 0
        /\ BitVecLen(bitsOf(p)) - BytesFor(Len(code[p])) = 4
        /\ code[p][Len(code[p])] = PUSH1 + 31

(* the marking calls of the current iteration, and their sizes *)
RECURSIVE SumSizes(_, _)
SumSizes(calls, k) == IF k = 0 THEN 0 ELSE calls[k][2] + SumSizes(calls, k - 1)

IterationOver(p) == at[p] \in {"loop", "done"} /\ hist[p].cur >= 0

C12_EvaluatedOffsetsStayCode ==
    \A p \in Procs :
        LET visited == hist[p].visited
        IN  /\ ref[p] = 0 => visited = {}
            /\ ref[p] # 0 =>
                  LET bits == bitsOf(p)
                  IN  \A o \in visited : ~DataBit(bits, o)
            /\ visited \subseteq Offsets(code[p])
            /\ Done(p) => visited = RefVisited(code[p], 0)

(* two pushes evaluated, the span of the second marked after the first     *)
(* opcode and the opcode between them were evaluated                       *)
C12_Witness ==
    \E p \in Procs :
        /\ Done(p)
        /\ \E o1, o2 \in hist[p].visited :
              /\ o1 < o2
              /\ IsPushLiteral(code[p][o1 + 1])
              /\ IsPushLiteral(code[p][o2 + 1])
              /\ DataBit(bitsOf(p), o1 + 1)
              /\ DataBit(bitsOf(p), o2 + 1)
              /\ ~DataBit(bitsOf(p), o1)
              /\ ~DataBit(bitsOf(p), o2)

(* C13: the scan terminates; every step of the scan that moves the cursor *)
(* moves it forward, an iteration started at offset o ends at o + 1 + w    *)
(* (w the push width or 0), no offset is evaluated twice, and the loop     *)
(* exits with len(code) <= pc <= len(code) + 32.                           *)
C13_ScanTerminates ==
    /\ [](\A p \in Procs :
            /\ (IterationOver(p) /\ at[p] # "panic") =>
                  pc[p] = hist[p].cur + 1 + Width(code[p][hist[p].cur + 1])
            /\ at[p] = "body" => numbits[p] >= 1
            /\ Done(p) =>
                  /\ Len(code[p]) <= pc[p]
                  /\ pc[p] <= Len(code[p]) + MaxPushWidth)
    /\ [][ \A p \in Procs :
             /\ pc'[p] >= pc[p]
             /\ hist'[p].visited # hist[p].visited =>
                   /\ pc[p] \notin hist[p].visited
                   /\ hist'[p].visited = hist[p].visited \cup {pc[p]}
                   /\ pc'[p] = pc[p] + 1
             /\ (at[p] \in {"loop", "body"} /\ at'[p] # "done" /\ <<pc[p], at[p]>> # <<pc'[p], at'[p]>>) =>
                   pc'[p] > pc[p] ]_vars
    /\ <>(\A p \in Procs : Done(p))

(* the loop left with the cursor 32 past the end, after several iterations *)
C13_Witness ==
    \E p \in Procs :
        /\ Done(p)
        /\ pc[p] = Len(code[p]) + MaxPushWidth
        /\ Cardinality(hist[p].visited) >= 3

(* C14: for every one of the 256 byte values b read as the opcode, the    *)
(* signed test takes b as a push exactly when 0x60 <= b <= 0x7f (96..127), *)
(* with numbits = b - 0x60 + 1 in 1..32; every other value, 0x80..0xff     *)
(* included, moves the cursor by 1 and marks nothing.                      *)
C14_PushRangeIsSixtyToSeventyF ==
    [][ \A p \in Procs :
          (at[p] = "loop" /\ pc[p] < Len(code[p])) =>
              LET b == code[p][pc[p] + 1]
              IN  /\ pc'[p] = pc[p] + 1
                  /\ heap' = heap
                  /\ IF 96 <= b /\ b <= 127
                     THEN /\ at'[p] = "body"
                          /\ numbits'[p] = b - 96 + 1
                          /\ numbits'[p] \in 1..32
                     ELSE /\ at'[p] = "loop"
                          /\ numbits'[p] = numbits[p]
                          /\ hist'[p].calls = <<>> ]_vars

(* 0xff, negative as an int8, evaluated as an opcode: nothing is marked *)
C14_Witness ==
    \E p \in Procs :
        /\ Done(p)
        /\ hist[p].cur >= 0
        /\ code[p][hist[p].cur + 1] = 255
        /\ pc[p] = hist[p].cur + 1
        /\ \A i \in DOMAIN bitsOf(p) : bitsOf(p)[i] = 0

(* C15: at every call of set1, setN, set8 or set16 made at position pos,   *)
(* every bit at an offset >= pos is still zero; the call sets exactly the   *)
(* bits of its span [pos, pos+n-1], clears no bit and leaves every other    *)
(* bit, in particular every bit below pos, unchanged.                       *)
C15_MarkingCallFrame ==
    [][ \A p \in Procs :
          at[p] = "body" =>
              LET pos  == pc[p]
                  n    == pc'[p] - pc[p]
                  old  == heap[ref[p]]
                  new  == heap'[ref[p]]
              IN  /\ at'[p] # "panic"
                  /\ n \in 1..16
                  /\ hist'[p].calls = Append(hist[p].calls, <<pos, n>>)
                  /\ DOMAIN new = DOMAIN old
                  /\ \A i \in AllBits(old) :
                        /\ i >= pos => ~DataBit(old, i)
                        /\ DataBit(new, i) <=> (DataBit(old, i) \/ i \in pos..(pos + n - 1)) ]_vars

(* a call at an unaligned position whose byte already holds data bits of an *)
(* earlier push, and whose span carries into the following byte             *)
C15_Witness ==
    \E p \in Procs :
        /\ at[p] \in {"body", "loop"}
        /\ hist[p].calls # <<>>
        /\ LET last == hist[p].calls[Len(hist[p].calls)]
               pos  == last[1]
               n    == last[2]
           IN  /\ pos % 8 # 0
               /\ (pos + n - 1) \div 8 > pos \div 8
               /\ DataBit(bitsOf(p), pos + n - 1)
               /\ \E i \in 0..(hist[p].cur - 1) :
                     i \div 8 = pos \div 8 /\ DataBit(bitsOf(p), i)

TypeOK ==
    /\ \A p \in Procs : at[p] \in {"start", "loop", "body", "done", "panic"}
    /\ \A p \in Procs : ref[p] \in 0..Len(heap)
====
